---- MODULE Spec2Model ----
(***************************************************************************)
(* The deet debugger (proj-1/deet): the command loop of Debugger::run, the *)
(* traced process owned by Inferior, and the breakpoint registry.          *)
(*                                                                         *)
(* One action per debugger command. A command handler is a Rust function   *)
(* that runs to completion, so every action models the whole handler; the  *)
(* trace operations it issues and the lines it prints during that one      *)
(* command are recorded in the history variables ops and out.              *)
(***************************************************************************)
EXTENDS Integers, Sequences, FiniteSets, TLC

\* Bound: how many times `run` may spawn a process in one session.
MaxRuns == 2

WordSize == 8
TRAP == 204

(***************************************************************************)
(* The target program and its address space.                               *)
(* One text word at 8..15 and two stack words at 32..47 are mapped; every  *)
(* other address is unmapped. The program is                               *)
(*      8: call foo     (pushes return address 9, enters foo's frame)      *)
(*      9: exit(0)                                                         *)
(*     10: foo: op                                                         *)
(*     11: ret                                                             *)
(* with one-byte instructions, so the trap opcode replaces a whole         *)
(* instruction.                                                            *)
(***************************************************************************)
TextAddrs == 8..15
StackAddrs == 32..47
CodeAddrs == 8..11
Entry == 8
MainFrame == 48
FooFrame == 32
FooAddr == 10
RetAddr == 9

Image ==
  [a \in TextAddrs \cup StackAddrs |->
     CASE a = 8 -> 232
       [] a = 9 -> 244
       [] a = 10 -> 85
       [] a = 11 -> 195
       [] OTHER -> 0]

\* The process behind Option<Inferior>: st is what the OS knows about it.
\* "starting": spawned, not yet at its exec stop; "stopped": in a trace stop;
\* "gone": terminated and reaped; "none": no process.
NoProc == [st |-> "none", rip |-> 0, rbp |-> 0, mem |-> Image]
GoneProc == [st |-> "gone", rip |-> 0, rbp |-> 0, mem |-> Image]
Spawned(st) == [st |-> st, rip |-> Entry, rbp |-> MainFrame, mem |-> Image]

\* Entries of the two history variables.
Ev(op, a, v, sig, ok) == [op |-> op, a |-> a, v |-> v, sig |-> sig, ok |-> ok]
Msg(msg, txt, n) == [msg |-> msg, txt |-> txt, n |-> n]

\* Status (inferior.rs): Stopped(signal, rip), Exited(code), Signaled(signal)
Stopped(sig, addr) == [kind |-> "Stopped", sig |-> sig, n |-> addr]
Exited(code) == [kind |-> "Exited", sig |-> "", n |-> code]
Signaled(sig) == [kind |-> "Signaled", sig |-> sig, n |-> 0]

(***************************************************************************)
(* Machine words are 64 bits wide; a word is kept as its 8 little-endian   *)
(* bytes, indexed 0..7, so that shifts by 8 * byte_offset select a byte.   *)
(***************************************************************************)
ZeroWord == [i \in 0..(WordSize - 1) |-> 0]

RECURSIVE WordValFrom(_, _)
WordValFrom(w, i) ==
  IF i >= WordSize THEN 0 ELSE w[i] + 256 * WordValFrom(w, i + 1)

\* `word as usize`
WordVal(w) == WordValFrom(w, 0)

\* The 8 little-endian bytes of a small value.
WordOf(n) ==
  [i \in 0..(WordSize - 1) |-> IF i = 0 THEN n % 256 ELSE IF i = 1 THEN (n \div 256) % 256 ELSE 0]

\* ptrace::read(pid, addr): fails unless the process is in a trace stop and
\* the whole word is mapped.
PtraceRead(m, a) ==
  IF m.st = "stopped" /\ \A i \in 0..(WordSize - 1) : (a + i) \in DOMAIN m.mem
    THEN [ok |-> TRUE, word |-> [i \in 0..(WordSize - 1) |-> m.mem[a + i]]]
    ELSE [ok |-> FALSE, word |-> ZeroWord]

\* ptrace::write(pid, addr, word)
PtraceWrite(m, a, w) ==
  [m EXCEPT !.mem = [x \in DOMAIN m.mem |->
                       IF x \in a..(a + WordSize - 1) THEN w[x - a] ELSE m.mem[x]]]

\* addr & (-(size_of::<usize>() as isize) as usize)
align_addr_to_word(addr) == (addr \div WordSize) * WordSize

RECURSIVE BitAnd(_, _)
BitAnd(x, y) ==
  IF x = 0 \/ y = 0 THEN 0
  ELSE (IF x % 2 = 1 /\ y % 2 = 1 THEN 1 ELSE 0) + 2 * BitAnd(x \div 2, y \div 2)

RECURSIVE BitOr(_, _)
BitOr(x, y) ==
  IF x = 0 THEN y
  ELSE IF y = 0 THEN x
  ELSE (IF x % 2 = 1 \/ y % 2 = 1 THEN 1 ELSE 0) + 2 * BitOr(x \div 2, y \div 2)

\* Word operators of write_byte, on the byte representation.
WordAnd(a, b) == [i \in 0..(WordSize - 1) |-> BitAnd(a[i], b[i])]
WordOr(a, b) == [i \in 0..(WordSize - 1) |-> BitOr(a[i], b[i])]
WordNot(a) == [i \in 0..(WordSize - 1) |-> 255 - a[i]]

\* ShiftLeft that ignores the byte offset: the byte always lands in byte 0.
ShiftLeft_NoOffset(b, byte_offset) ==
  [i \in 0..(WordSize - 1) |-> IF i = 0 THEN b ELSE 0]

\* (b as u64) << 8 * byte_offset, for a byte b
ShiftLeft(b, byte_offset) ==
  [i \in 0..(WordSize - 1) |-> IF i = byte_offset THEN b ELSE 0]

\* word >> 8 * byte_offset
ShiftRight(word, byte_offset) ==
  [i \in 0..(WordSize - 1) |->
     IF i + byte_offset < WordSize THEN word[i + byte_offset] ELSE 0]

\* Inferior::write_byte: [ok, byte (the byte that was there), m, log]
write_byte(m, addr, val) ==
  LET aligned_addr == align_addr_to_word(addr)
      byte_offset == addr - aligned_addr
      r == PtraceRead(m, aligned_addr)
      orig_byte == WordAnd(ShiftRight(r.word, byte_offset), ShiftLeft(255, 0))
      masked_word == WordAnd(r.word, WordNot(ShiftLeft(255, byte_offset)))
      updated_word == WordOr(masked_word, ShiftLeft(val, byte_offset))
  IN IF ~r.ok
       THEN [ok |-> FALSE, byte |-> 0, m |-> m,
             log |-> <<Ev("peek", aligned_addr, 0, "", FALSE)>>]
       ELSE [ok |-> TRUE, byte |-> WordVal(orig_byte),
             m |-> PtraceWrite(m, aligned_addr, updated_word),
             log |-> <<Ev("peek", aligned_addr, 0, "", TRUE),
                       Ev("poke", addr, val, "", TRUE)>>]

\* Inferior::install_breakpoints
install_breakpoints(m, breakpoint) == write_byte(m, breakpoint, TRAP)

(***************************************************************************)
(* What the traced process does between a resume and the next wait status. *)
(***************************************************************************)

\* One instruction of the target at m.rip. kind "go": executed, the process
\* runs on; "stop": the process enters a signal stop; "exit": it exited.
\* A byte that is neither the trap nor the program's instruction at that
\* address decodes to something the program never contained: it may fault or
\* execute as some other instruction and fall through.
Insn(m) ==
  LET a == m.rip
      ra == PtraceRead(m, m.rbp + WordSize)
      fp == PtraceRead(m, m.rbp)
      call == PtraceWrite(PtraceWrite(m, FooFrame + WordSize, WordOf(RetAddr)),
                          FooFrame, WordOf(m.rbp))
  IN IF a \notin TextAddrs
       THEN {[kind |-> "stop", sig |-> "SIGSEGV", m |-> m, log |-> <<>>]}
     ELSE IF m.mem[a] = TRAP
       THEN {[kind |-> "stop", sig |-> "SIGTRAP", m |-> [m EXCEPT !.rip = a + 1],
              log |-> <<Ev("trap", a, 0, "", TRUE)>>]}
     ELSE IF a \in CodeAddrs /\ m.mem[a] = Image[a]
       THEN CASE a = 8 ->
                   {[kind |-> "go", sig |-> "",
                     m |-> [call EXCEPT !.rip = FooAddr, !.rbp = FooFrame],
                     log |-> <<Ev("ran", a, 0, "", TRUE)>>]}
              [] a = 9 ->
                   {[kind |-> "exit", sig |-> "", m |-> GoneProc,
                     log |-> <<Ev("ran", a, 0, "", TRUE)>>]}
              [] a = 10 ->
                   {[kind |-> "go", sig |-> "", m |-> [m EXCEPT !.rip = a + 1],
                     log |-> <<Ev("ran", a, 0, "", TRUE)>>]}
              [] OTHER ->
                   IF ra.ok /\ fp.ok
                     THEN {[kind |-> "go", sig |-> "",
                            m |-> [m EXCEPT !.rip = WordVal(ra.word),
                                            !.rbp = WordVal(fp.word)],
                            log |-> <<Ev("ran", a, 0, "", TRUE)>>]}
                     ELSE {[kind |-> "stop", sig |-> "SIGSEGV", m |-> m, log |-> <<>>]}
     ELSE {[kind |-> "stop", sig |-> "SIGSEGV", m |-> m, log |-> <<>>],
           [kind |-> "go", sig |-> "", m |-> [m EXCEPT !.rip = a + 1],
            log |-> <<Ev("garbage", a, m.mem[a], "", TRUE)>>]}

\* A signal from outside the debugger reaches the process before its next
\* instruction: any signal but SIGKILL stops a traced process, SIGKILL ends it.
Interrupted(m) ==
  {[st |-> Stopped("SIGINT", m.rip), m |-> m, log |-> <<>>],
   [st |-> Signaled("SIGKILL"), m |-> GoneProc, log |-> <<>>]}

\* The process runs from m until waitpid has something to report: the set of
\* [st: Status, m, log]. A process that comes back to a configuration in seen
\* is looping, and reports nothing that its first pass did not.
RECURSIVE ResumeFrom(_, _)
ResumeFrom(m, seen) ==
  IF m \in seen THEN {}
  ELSE Interrupted(m) \cup
       UNION {IF i.kind = "stop"
                THEN {[st |-> Stopped(i.sig, i.m.rip), m |-> i.m, log |-> i.log]}
              ELSE IF i.kind = "exit"
                THEN {[st |-> Exited(0), m |-> i.m, log |-> i.log]}
              ELSE {[st |-> r.st, m |-> r.m, log |-> i.log \o r.log]
                    : r \in ResumeFrom(i.m, seen \cup {m})}
              : i \in Insn(m)}

Resume(m) == ResumeFrom(m, {})

\* The process executes one instruction under PTRACE_SINGLESTEP.
SingleStep(m) ==
  Interrupted(m) \cup
  {IF i.kind = "stop" THEN [st |-> Stopped(i.sig, i.m.rip), m |-> i.m, log |-> i.log]
   ELSE IF i.kind = "exit" THEN [st |-> Exited(0), m |-> i.m, log |-> i.log]
   ELSE [st |-> Stopped("SIGTRAP", i.m.rip), m |-> i.m, log |-> i.log]
   : i \in Insn(m)}

\* Inferior::wait, given what the process did: the status and its log entry.
WaitEv(st) == Ev("wait", st.n, 0, IF st.kind = "Stopped" THEN st.sig ELSE st.kind, TRUE)

\* Inferior::continue_run: the set of [ok, st, m, log]. ptrace::cont fails
\* (ESRCH) unless the process is in a trace stop.
continue_run(m) ==
  IF m.st # "stopped"
    THEN {[ok |-> FALSE, st |-> Exited(0), m |-> m, log |-> <<Ev("cont", 0, 0, "", FALSE)>>]}
    ELSE {[ok |-> TRUE, st |-> r.st, m |-> r.m,
           log |-> <<Ev("cont", m.rip, 0, "", TRUE)>> \o r.log \o <<WaitEv(r.st)>>]
          : r \in Resume(m)}

\* Inferior::get_previous_ins: [ok, rip]; the unwrap inside panics when the
\* register read fails.
get_previous_ins(m) ==
  IF m.st = "stopped" THEN [ok |-> TRUE, rip |-> m.rip - 1]
  ELSE [ok |-> FALSE, rip |-> 0]

\* step_breakpoint that reports success after a SIGTRAP stop without writing
\* the trap back.
step_breakpoint_NoReinstall(m, rip, orin_byte) ==
  LET w == write_byte(m, rip, orin_byte)
      m1 == [w.m EXCEPT !.rip = rip]
      head == w.log \o <<Ev("getregs", 0, 0, "", TRUE), Ev("setregs", rip, 0, "", TRUE),
                         Ev("step", rip, 0, "", TRUE)>>
  IN IF ~w.ok
       THEN {[panic |-> TRUE, ret |-> FALSE, m |-> m, log |-> w.log]}
       ELSE {[panic |-> FALSE, ret |-> (s.st.kind = "Stopped" /\ s.st.sig = "SIGTRAP"),
              m |-> s.m, log |-> head \o s.log \o <<WaitEv(s.st)>>]
             : s \in SingleStep(m1)}

\* Inferior::step_breakpoint: the set of [panic, ret, m, log].
step_breakpoint(m, rip, orin_byte) ==
  LET w == write_byte(m, rip, orin_byte)
      m1 == [w.m EXCEPT !.rip = rip]
      head == w.log \o <<Ev("getregs", 0, 0, "", TRUE), Ev("setregs", rip, 0, "", TRUE),
                         Ev("step", rip, 0, "", TRUE)>>
  IN IF ~w.ok
       THEN {[panic |-> TRUE, ret |-> FALSE, m |-> m, log |-> w.log]}
       ELSE {LET l == head \o s.log \o <<WaitEv(s.st)>>
                 i == install_breakpoints(s.m, rip)
             IN IF s.st.kind = "Stopped" /\ s.st.sig = "SIGTRAP"
                  THEN [panic |-> ~i.ok, ret |-> TRUE, m |-> i.m, log |-> l \o i.log]
                  ELSE [panic |-> FALSE, ret |-> FALSE, m |-> s.m, log |-> l]
             : s \in SingleStep(m1)}

(***************************************************************************)
(* Breakpoint specs. A spec is the token after `break`, kept as the        *)
(* sequence of its characters.                                             *)
(***************************************************************************)
Specs ==
  {<<"*", "0", "x", "8">>, <<"*", "a">>, <<"*", "7">>, <<"*", "z">>,
   <<"m", "a", "i", "n">>, <<"b", "a", "r">>, <<"4">>, <<"9", "9">>}

\* char::to_digit(radix): the digit's value, or -1
to_digit(c, radix) ==
  LET v == CASE c = "0" -> 0 [] c = "1" -> 1 [] c = "2" -> 2 [] c = "3" -> 3
             [] c = "4" -> 4 [] c = "5" -> 5 [] c = "6" -> 6 [] c = "7" -> 7
             [] c = "8" -> 8 [] c = "9" -> 9
             [] c \in {"a", "A"} -> 10 [] c \in {"b", "B"} -> 11
             [] c \in {"c", "C"} -> 12 [] c \in {"d", "D"} -> 13
             [] c \in {"e", "E"} -> 14 [] c \in {"f", "F"} -> 15
             [] OTHER -> -1
  IN IF v < radix THEN v ELSE -1

RECURSIVE DigitsValue(_, _, _)
DigitsValue(digits, radix, acc) ==
  IF digits = <<>> THEN acc
  ELSE DigitsValue(Tail(digits), radix, acc * radix + to_digit(Head(digits), radix))

\* usize::from_str_radix(src, radix): [ok, val]. An empty string, a lone
\* sign and any non-digit are errors; one leading `+` is accepted.
from_str_radix(src, radix) ==
  LET digits == IF src # <<>> /\ Head(src) = "+" THEN Tail(src) ELSE src
  IN IF src = <<>> \/ digits = <<>>
          \/ \E i \in 1..Len(digits) : to_digit(digits[i], radix) = -1
       THEN [ok |-> FALSE, val |-> 0]
       ELSE [ok |-> TRUE, val |-> DigitsValue(digits, radix, 0)]

\* get_breakpoint_type that never tries the spec as a line number.
get_breakpoint_type_NoLine(breakpoint) ==
  IF breakpoint # <<>> /\ Head(breakpoint) = "*"
    THEN [type |-> "Raw", str |-> Tail(breakpoint), line |-> 0]
  ELSE [type |-> "Func", str |-> breakpoint, line |-> 0]

\* get_breakpoint_type: Raw(rest), Line(line) or Func(name)
get_breakpoint_type(breakpoint) ==
  IF breakpoint # <<>> /\ Head(breakpoint) = "*"
    THEN [type |-> "Raw", str |-> Tail(breakpoint), line |-> 0]
  ELSE IF from_str_radix(breakpoint, 10).ok
    THEN [type |-> "Line", str |-> <<>>, line |-> from_str_radix(breakpoint, 10).val]
  ELSE [type |-> "Func", str |-> breakpoint, line |-> 0]

\* parse_address: Option<usize> as [ok, val]
parse_address(addr) ==
  LET addr_without_0x ==
        IF Len(addr) >= 2 /\ addr[1] = "0" /\ addr[2] \in {"x", "X"}
          THEN SubSeq(addr, 3, Len(addr))
          ELSE addr
  IN from_str_radix(addr_without_0x, 16)

(***************************************************************************)
(* The symbol resolver (DwarfData) for the target above: main is lines 1-2 *)
(* at 8..9, foo is lines 4-5 at 10..11.                                    *)
(***************************************************************************)
get_line_from_addr(addr) ==
  CASE addr = 8 -> [ok |-> TRUE, val |-> 1]
    [] addr = 9 -> [ok |-> TRUE, val |-> 2]
    [] addr = 10 -> [ok |-> TRUE, val |-> 4]
    [] addr = 11 -> [ok |-> TRUE, val |-> 5]
    [] OTHER -> [ok |-> FALSE, val |-> 0]

get_function_from_addr(addr) ==
  CASE addr \in {8, 9} -> [ok |-> TRUE, val |-> "main"]
    [] addr \in {10, 11} -> [ok |-> TRUE, val |-> "foo"]
    [] OTHER -> [ok |-> FALSE, val |-> ""]

get_addr_for_line(line) ==
  CASE line = 1 -> [ok |-> TRUE, val |-> 8]
    [] line = 2 -> [ok |-> TRUE, val |-> 9]
    [] line = 4 -> [ok |-> TRUE, val |-> 10]
    [] line = 5 -> [ok |-> TRUE, val |-> 11]
    [] OTHER -> [ok |-> FALSE, val |-> 0]

get_addr_for_function(func) ==
  CASE func = <<"m", "a", "i", "n">> -> [ok |-> TRUE, val |-> Entry]
    [] func = <<"f", "o", "o">> -> [ok |-> TRUE, val |-> FooAddr]
    [] OTHER -> [ok |-> FALSE, val |-> 0]

(***************************************************************************)
(* The session: the fields of Debugger, the OS processes it has spawned,   *)
(* and the history of the last command.                                    *)
(***************************************************************************)
VARIABLES
  inferior,     \* Debugger.inferior: None, or the pid of the Inferior's child
  breakpoints,  \* Debugger.breakpoints: address -> BreakPoint
  proc,         \* the process behind `inferior`
  alive,        \* pids spawned by this session that are alive or unreaped
  nextPid,      \* the pid the next spawn gets
  sess,         \* "active", "quit" (run returned) or "panic" (run unwound)
  lastCmd,      \* the command handled last
  runStatus,    \* what the last `run` that spawned a process got from its wait
  ops,          \* OS and resolver calls of the last command, in order
  out,          \* lines printed by the last command, in order
  memBefore,    \* the child's memory before a trap was installed and taken back
  v             \* week1/part-2-warmup: the vector handed to dedup

vars ==
  <<inferior, breakpoints, proc, alive, nextPid, sess, lastCmd, runStatus, ops, out,
    memBefore, v>>

None == 0

\* The session as one value, for the handlers below.
Cur ==
  [inferior |-> inferior, breakpoints |-> breakpoints, proc |-> proc,
   alive |-> alive, nextPid |-> nextPid, sess |-> sess, runStatus |-> runStatus,
   ops |-> ops, out |-> out]

\* A handler ends normally, having issued log and printed lines.
Done(S, log, lines) == [S EXCEPT !.ops = log, !.out = lines]

\* A handler panics: an unwrap() on Err or None unwinds out of Debugger::run.
Panic(S, log, lines) == [S EXCEPT !.sess = "panic", !.ops = log, !.out = lines]

\* The child is now m; a child whose exit waitpid has returned is reaped.
WithProc(S, m) ==
  [S EXCEPT !.proc = m,
            !.alive = IF m.st = "gone" THEN @ \ {S.inferior} ELSE @]

\* BreakPoint::new
BreakPoint_new(id, addr) == [id |-> id, addr |-> addr, orig_byte |-> 0]

\* NextId with ids counted from 0.
NextId_ZeroBased(bps) == Cardinality(DOMAIN bps)

\* self.breakpoints.len() + 1
NextId(bps) == Cardinality(DOMAIN bps) + 1

\* IsNewAddress without the contains_key test: every request inserts.
IsNewAddress_Always(bps, breakpoint) == TRUE

\* !self.breakpoints.contains_key(&breakpoint)
IsNewAddress(bps, breakpoint) == breakpoint \notin DOMAIN bps

\* HashMap::insert
Insert(bps, key, value) ==
  [a \in DOMAIN bps \cup {key} |-> IF a = key THEN value ELSE bps[a]]

\* BreakPoint::set_byte on the entry at key
set_byte(bps, key, orig_byte) == [bps EXCEPT ![key].orig_byte = orig_byte]

RECURSIVE SortedSeq(_)
SortedSeq(S) ==
  IF S = {} THEN <<>>
  ELSE LET x == CHOOSE x \in S : \A y \in S : x <= y
       IN <<x>> \o SortedSeq(S \ {x})

\* InstallEach with an empty loop: nothing is installed into the new child.
InstallEach_None(m, addrs) == [m |-> m, log |-> <<>>]

\* The loop of Inferior::new over the registry; every result is dropped.
RECURSIVE InstallEach(_, _)
InstallEach(m, addrs) ==
  IF addrs = <<>> THEN [m |-> m, log |-> <<>>]
  ELSE LET i == install_breakpoints(m, Head(addrs))
           r == InstallEach(i.m, Tail(addrs))
       IN [m |-> r.m, log |-> i.log \o r.log]

\* Inferior::new: the set of [ok, m, log]. spawn returns once the child has
\* called exec; nothing waits for the child's exec stop, so the installs in
\* early are attempted while the child is not yet stopped, and the child may
\* still not be stopped when new returns.
Inferior_new(bps) ==
  {[ok |-> FALSE, m |-> NoProc, log |-> <<Ev("spawn", 0, 0, "", FALSE)>>]}
  \cup
  {LET early == InstallEach(Spawned("starting"), SortedSeq(F))
       late == InstallEach(Spawned("stopped"), SortedSeq((DOMAIN bps) \ F))
   IN [ok |-> TRUE, m |-> late.m,
       log |-> <<Ev("spawn", 0, 0, "", TRUE)>> \o early.log \o late.log]
   : F \in SUBSET (DOMAIN bps)}
  \cup
  {[ok |-> TRUE, m |-> Spawned("starting"),
    log |-> <<Ev("spawn", 0, 0, "", TRUE)>>
            \o InstallEach(Spawned("starting"), SortedSeq(DOMAIN bps)).log]}

\* The lines a Status prints in Run and Continue.
Report(st) ==
  IF st.kind = "Exited" THEN <<Msg("Child exited (status)", "", st.n)>>
  ELSE IF st.kind = "Signaled" THEN <<Msg("Child exited with", st.sig, 0)>>
  ELSE <<Msg("Child stopped (signal)", st.sig, st.n)>> \o
       (IF get_function_from_addr(st.n).ok /\ get_line_from_addr(st.n).ok
          THEN <<Msg("Stopped at", get_function_from_addr(st.n).val,
                     get_line_from_addr(st.n).val)>>
          ELSE <<Msg("Fail to resolve stopping function and line", "", 0)>>)

\* DebuggerCommand::Run
RunCmd(S) ==
  UNION {
    IF ~n.ok
      THEN {Done(S, n.log, <<Msg("Error starting subprocess", "", 0)>>)}
      ELSE LET S1 == [S EXCEPT !.inferior = S.nextPid, !.proc = n.m,
                               !.alive = @ \cup {S.nextPid},
                               !.nextPid = @ + 1]
           IN {IF ~r.ok
                 THEN Panic([S1 EXCEPT !.runStatus = "Err"], n.log \o r.log, <<>>)
                 ELSE Done([WithProc(S1, r.m) EXCEPT !.runStatus = r.st.kind],
                           n.log \o r.log, Report(r.st))
               : r \in continue_run(n.m)}
    : n \in Inferior_new(S.breakpoints)}

\* DebuggerCommand::Continue, from the first continue_run on.
ContinueTail(S, log, lines) ==
  UNION {
    IF ~r.ok
      THEN {Panic(S, log \o r.log, lines)}
      ELSE LET S1 == WithProc(S, r.m)
               log1 == log \o r.log
               lines1 == lines \o Report(r.st)
           IN IF r.st.kind # "Stopped"
                THEN {Panic([S1 EXCEPT !.inferior = None, !.proc = NoProc], log1, lines1)}
                ELSE {IF ~q.ok
                        THEN Panic(S1, log1 \o q.log, lines1)
                        ELSE Done(WithProc(S1, q.m), log1 \o q.log, lines1)
                      : q \in continue_run(S1.proc)}
    : r \in continue_run(S.proc)}

\* ContinueCmd without the is_none test at its head.
ContinueCmd_NoGuard(S) ==
  LET g == get_previous_ins(S.proc)
      rip == g.rip
      read == <<Ev("getregs", 0, 0, "", g.ok)>>
      hit == <<Msg("Previously Stopped at breakpoint", "", rip)>>
  IN IF ~g.ok
       THEN {Panic(S, read, <<>>)}
     ELSE IF rip \in DOMAIN S.breakpoints
       THEN UNION {
              IF b.panic
                THEN {Panic(WithProc(S, b.m), read \o b.log, hit)}
              ELSE IF ~b.ret
                THEN {Done(WithProc(S, b.m), read \o b.log,
                           hit \o <<Msg("Failed to step by the breakpoint", "", 0)>>)}
              ELSE ContinueTail(WithProc(S, b.m), read \o b.log, hit)
              : b \in step_breakpoint(S.proc, rip, S.breakpoints[rip].orig_byte)}
     ELSE ContinueTail(S, read, <<>>)

\* DebuggerCommand::Continue
ContinueCmd(S) ==
  LET g == get_previous_ins(S.proc)
      rip == g.rip
      read == <<Ev("getregs", 0, 0, "", g.ok)>>
      hit == <<Msg("Previously Stopped at breakpoint", "", rip)>>
  IN IF S.inferior = None
       THEN {Done(S, <<>>, <<Msg("The process is not running", "", 0)>>)}
     ELSE IF ~g.ok
       THEN {Panic(S, read, <<>>)}
     ELSE IF rip \in DOMAIN S.breakpoints
       THEN UNION {
              IF b.panic
                THEN {Panic(WithProc(S, b.m), read \o b.log, hit)}
              ELSE IF ~b.ret
                THEN {Done(WithProc(S, b.m), read \o b.log,
                           hit \o <<Msg("Failed to step by the breakpoint", "", 0)>>)}
              ELSE ContinueTail(WithProc(S, b.m), read \o b.log, hit)
              : b \in step_breakpoint(S.proc, rip, S.breakpoints[rip].orig_byte)}
     ELSE ContinueTail(S, read, <<>>)

\* Inferior::kill: [m, log, lines]. Child::kill succeeds while the pid names
\* a process of ours that has not been reaped.
kill(m) ==
  IF m.st \in {"starting", "stopped"}
    THEN [m |-> GoneProc,
          log |-> <<Ev("kill", 0, 0, "", TRUE), WaitEv(Signaled("SIGKILL"))>>,
          lines |-> <<Msg("Killing running inferior", "", 0)>>]
    ELSE [m |-> m, log |-> <<Ev("kill", 0, 0, "", FALSE)>>, lines |-> <<>>]

\* DebuggerCommand::Quit
QuitCmd(S) ==
  IF S.inferior = None
    THEN {Panic(S, <<>>, <<>>)}
    ELSE LET k == kill(S.proc)
         IN {[Done(WithProc(S, k.m), k.log, k.lines) EXCEPT !.sess = "quit"]}

\* Walk that takes the return address from [base_ptr] and the caller's frame
\* base from [base_ptr + 8].
RECURSIVE Walk_Swapped(_, _, _)
Walk_Swapped(m, instruction_ptr, base_ptr) ==
  LET line == get_line_from_addr(instruction_ptr)
      function == get_function_from_addr(instruction_ptr)
      ra == PtraceRead(m, base_ptr)
      fp == PtraceRead(m, base_ptr + 8)
      here == <<Msg("frame", function.val, line.val)>>
      rest == Walk_Swapped(m, WordVal(ra.word), WordVal(fp.word))
  IN IF ~line.ok \/ ~function.ok
       THEN [panic |-> TRUE, ok |-> FALSE, log |-> <<>>, lines |-> <<>>]
     ELSE IF function.val = "main"
       THEN [panic |-> FALSE, ok |-> TRUE, log |-> <<>>, lines |-> here]
     ELSE IF ~ra.ok
       THEN [panic |-> FALSE, ok |-> FALSE,
             log |-> <<Ev("peek", base_ptr, 0, "", FALSE)>>, lines |-> here]
     ELSE IF ~fp.ok
       THEN [panic |-> FALSE, ok |-> FALSE,
             log |-> <<Ev("peek", base_ptr, 0, "", TRUE),
                       Ev("peek", base_ptr + 8, 0, "", FALSE)>>, lines |-> here]
     ELSE [panic |-> rest.panic, ok |-> rest.ok,
           log |-> <<Ev("peek", base_ptr, 0, "", TRUE),
                     Ev("peek", base_ptr + 8, 0, "", TRUE)>> \o rest.log,
           lines |-> here \o rest.lines]

\* The loop of Inferior::print_backtrace: [panic, ok, log, lines]
RECURSIVE Walk(_, _, _)
Walk(m, instruction_ptr, base_ptr) ==
  LET line == get_line_from_addr(instruction_ptr)
      function == get_function_from_addr(instruction_ptr)
      ra == PtraceRead(m, base_ptr + 8)
      fp == PtraceRead(m, base_ptr)
      here == <<Msg("frame", function.val, line.val)>>
      rest == Walk(m, WordVal(ra.word), WordVal(fp.word))
  IN IF ~line.ok \/ ~function.ok
       THEN [panic |-> TRUE, ok |-> FALSE, log |-> <<>>, lines |-> <<>>]
     ELSE IF function.val = "main"
       THEN [panic |-> FALSE, ok |-> TRUE, log |-> <<>>, lines |-> here]
     ELSE IF ~ra.ok
       THEN [panic |-> FALSE, ok |-> FALSE,
             log |-> <<Ev("peek", base_ptr + 8, 0, "", FALSE)>>, lines |-> here]
     ELSE IF ~fp.ok
       THEN [panic |-> FALSE, ok |-> FALSE,
             log |-> <<Ev("peek", base_ptr + 8, 0, "", TRUE),
                       Ev("peek", base_ptr, 0, "", FALSE)>>, lines |-> here]
     ELSE [panic |-> rest.panic, ok |-> rest.ok,
           log |-> <<Ev("peek", base_ptr + 8, 0, "", TRUE),
                     Ev("peek", base_ptr, 0, "", TRUE)>> \o rest.log,
           lines |-> here \o rest.lines]

\* Inferior::print_backtrace
print_backtrace(m) ==
  IF m.st # "stopped"
    THEN [panic |-> FALSE, ok |-> FALSE,
          log |-> <<Ev("getregs", 0, 0, "", FALSE)>>, lines |-> <<>>]
    ELSE LET w == Walk(m, m.rip, m.rbp)
         IN [w EXCEPT !.log = <<Ev("getregs", 0, 0, "", TRUE)>> \o @]

\* DebuggerCommand::Backtrace
BacktraceCmd(S) ==
  IF S.inferior = None
    THEN {Done(S, <<>>, <<>>)}
    ELSE LET b == print_backtrace(S.proc)
         IN IF b.panic THEN {Panic(S, b.log, b.lines)}
            ELSE {Done(S, b.log, b.lines)}

\* DebuggerCommand::Break, once the spec is resolved to an address.
BreakAt(S, breakpoint, log) ==
  LET set == <<Msg("Set breakpoint", "", S.breakpoints[breakpoint].id)>>
      bps1 == Insert(S.breakpoints, breakpoint,
                     BreakPoint_new(NextId(S.breakpoints), breakpoint))
      i == install_breakpoints(S.proc, breakpoint)
  IN IF ~IsNewAddress(S.breakpoints, breakpoint)
       THEN Done(S, log, set)
     ELSE IF S.inferior = None
       THEN Done([S EXCEPT !.breakpoints = bps1], log,
                 <<Msg("Set breakpoint", "", bps1[breakpoint].id)>>)
     ELSE IF i.ok
       THEN Done([S EXCEPT !.breakpoints = set_byte(bps1, breakpoint, i.byte),
                           !.proc = i.m],
                 log \o i.log, <<Msg("Set breakpoint", "", bps1[breakpoint].id)>>)
     ELSE Done([S EXCEPT !.breakpoints = bps1], log \o i.log,
               <<Msg("Fail to insert breakpoint", "", breakpoint)>>)

\* The address a spec resolves to, lines 188-209: [type, ok, val, log]
Resolve(args) ==
  LET t == get_breakpoint_type(args)
      raw == parse_address(t.str)
      line == get_addr_for_line(t.line)
      func == get_addr_for_function(t.str)
  IN IF t.type = "Raw"
       THEN [type |-> "Raw", ok |-> raw.ok, val |-> raw.val, log |-> <<>>]
     ELSE IF t.type = "Line"
       THEN [type |-> "Line", ok |-> line.ok, val |-> line.val,
             log |-> <<Ev("get_addr_for_line", t.line, 0, "", line.ok)>>]
     ELSE [type |-> "Func", ok |-> func.ok, val |-> func.val,
           log |-> <<Ev("get_addr_for_function", 0, 0, "", func.ok)>>]

\* DebuggerCommand::Break
BreakCmd(S, args) ==
  LET r == Resolve(args)
  IN IF r.ok THEN {BreakAt(S, r.val, r.log)}
     ELSE IF r.type = "Raw" THEN {Panic(S, r.log, <<>>)}
     ELSE IF r.type = "Line"
       THEN {Done(S, r.log, <<Msg("Failed to find the address of line", "", 0)>>)}
     ELSE {Done(S, r.log, <<Msg("Failed to find the address of function", "", 0)>>)}

(***************************************************************************)
(* The command loop.                                                       *)
(***************************************************************************)
Init ==
  /\ inferior = None
  /\ breakpoints = <<>>
  /\ proc = NoProc
  /\ alive = {}
  /\ nextPid = 1
  /\ sess = "active"
  /\ lastCmd = [cmd |-> "none", args |-> <<>>]
  /\ runStatus = "none"
  /\ ops = <<>>
  /\ out = <<>>
  /\ memBefore = Image
  /\ v = <<>>

Commit(o, cmd, args) ==
  /\ inferior' = o.inferior
  /\ breakpoints' = o.breakpoints
  /\ proc' = o.proc
  /\ alive' = o.alive
  /\ nextPid' = o.nextPid
  /\ sess' = o.sess
  /\ runStatus' = o.runStatus
  /\ ops' = o.ops
  /\ out' = o.out
  /\ lastCmd' = [cmd |-> cmd, args |-> args]
  /\ UNCHANGED <<memBefore, v>>

Run ==
  /\ sess = "active"
  /\ nextPid <= MaxRuns
  /\ \E o \in RunCmd(Cur) : Commit(o, "run", <<>>)

Continue ==
  /\ sess = "active"
  /\ \E o \in ContinueCmd(Cur) : Commit(o, "continue", <<>>)

Quit ==
  /\ sess = "active"
  /\ \E o \in QuitCmd(Cur) : Commit(o, "quit", <<>>)

Backtrace ==
  /\ sess = "active"
  /\ \E o \in BacktraceCmd(Cur) : Commit(o, "backtrace", <<>>)

Break ==
  /\ sess = "active"
  /\ \E args \in Specs : \E o \in BreakCmd(Cur, args) : Commit(o, "break", args)

Next == Run \/ Continue \/ Quit \/ Backtrace \/ Break

Spec == Init /\ [][Next]_vars

(***************************************************************************)
(* Installing a trap and taking it back, over every content of the text    *)
(* word and every byte offset in it: `break` on a live, stopped child      *)
(* (debugger.rs:219-221), then the write of step_breakpoint that puts the  *)
(* saved byte back (inferior.rs:149).                                      *)
(***************************************************************************)
ByteVals == {0, TRAP, 255}

\* A stopped child whose text word holds w.
ChildWith(w) ==
  [Spawned("stopped") EXCEPT
     !.mem = [a \in DOMAIN Image |-> IF a \in TextAddrs THEN w[a - Entry] ELSE Image[a]]]

InstallInit ==
  /\ inferior = 1
  /\ breakpoints = <<>>
  /\ proc \in {ChildWith(w) : w \in [0..(WordSize - 1) -> ByteVals]}
  /\ alive = {1}
  /\ nextPid = 2
  /\ sess = "active"
  /\ lastCmd = [cmd |-> "none", args |-> <<>>]
  /\ runStatus = "Stopped"
  /\ ops = <<>>
  /\ out = <<>>
  /\ memBefore = proc.mem
  /\ v = <<>>

\* DebuggerCommand::Break at address a of the live child.
Install ==
  /\ lastCmd.cmd = "none"
  /\ \E a \in TextAddrs : \E o \in {BreakAt(Cur, a, <<>>)} :
       /\ breakpoints' = o.breakpoints
       /\ proc' = o.proc
       /\ ops' = o.ops
       /\ out' = o.out
  /\ lastCmd' = [cmd |-> "install", args |-> <<>>]
  /\ UNCHANGED <<inferior, alive, nextPid, sess, runStatus, memBefore, v>>

\* self.write_byte(rip, orin_byte) of step_breakpoint, for the registered
\* address and its saved byte.
Restore ==
  /\ lastCmd.cmd = "install"
  /\ \E a \in DOMAIN breakpoints :
       \E w \in {write_byte(proc, a, breakpoints[a].orig_byte)} :
         /\ w.ok
         /\ proc' = w.m
         /\ ops' = w.log
  /\ lastCmd' = [cmd |-> "restore", args |-> <<>>]
  /\ UNCHANGED <<inferior, breakpoints, alive, nextPid, sess, runStatus, out, memBefore, v>>

InstallNext == Install \/ Restore

InstallSpec == InstallInit /\ [][InstallNext]_vars

(***************************************************************************)
(* `backtrace` on a child stopped anywhere: the instruction pointer at any *)
(* address of the text word (12..15 have no debug information), the frame  *)
(* pointer at a frame record or above the mapped stack, and two frame      *)
(* records, at 16 and at 32, that hold any of a few saved frame pointers   *)
(* and return addresses. The stack of these children is mapped from 16 up, *)
(* and a saved frame pointer lies above its own record, as on a stack that *)
(* grows down.                                                             *)
(***************************************************************************)
InnerFrame == 16
DeepStackAddrs == InnerFrame..(FooFrame - 1)

FramePtrs == {InnerFrame, FooFrame, FooFrame + WordSize, MainFrame}
InnerSavedFramePtrs == {FooFrame, MainFrame}
SavedFramePtrs == {FooFrame + WordSize, MainFrame}
ReturnAddrs == {Entry, RetAddr, FooAddr, 12}

\* A frame record: the saved frame pointer and, a word above, the return address.
FrameRecords(fps) == {[fp |-> fp, ra |-> ra] : fp \in fps, ra \in ReturnAddrs}

\* A stopped child at rip, with frame pointer rbp, the frame record inner at
\* InnerFrame and the frame record outer at FooFrame.
ChildAt(rip, rbp, inner, outer) ==
  LET m == [Spawned("stopped") EXCEPT
              !.rip = rip, !.rbp = rbp,
              !.mem = [a \in (DOMAIN Image) \cup DeepStackAddrs |->
                         IF a \in DOMAIN Image THEN Image[a] ELSE 0]]
      m1 == PtraceWrite(PtraceWrite(m, InnerFrame, WordOf(inner.fp)),
                        InnerFrame + WordSize, WordOf(inner.ra))
  IN PtraceWrite(PtraceWrite(m1, FooFrame, WordOf(outer.fp)),
                 FooFrame + WordSize, WordOf(outer.ra))

BacktraceInit ==
  /\ inferior = 1
  /\ breakpoints = <<>>
  /\ proc \in {ChildAt(rip, rbp, inner, outer) :
                 rip \in TextAddrs, rbp \in FramePtrs,
                 inner \in FrameRecords(InnerSavedFramePtrs),
                 outer \in FrameRecords(SavedFramePtrs)}
  /\ alive = {1}
  /\ nextPid = 2
  /\ sess = "active"
  /\ lastCmd = [cmd |-> "none", args |-> <<>>]
  /\ runStatus = "Stopped"
  /\ ops = <<>>
  /\ out = <<>>
  /\ memBefore = Image
  /\ v = <<>>

BacktraceSpec == BacktraceInit /\ [][Backtrace]_vars

(***************************************************************************)
(* The dispatch of `break` over every spec of up to MaxSpecLen characters: *)
(* one `break` command in a fresh session.                                 *)
(***************************************************************************)
MaxSpecLen == 4

SpecChars == {"*", "+", "0", "4", "f", "o", "x", "X"}

RECURSIVE Strings(_)
Strings(n) ==
  IF n = 0 THEN {<<>>}
  ELSE Strings(n - 1) \cup {Append(s, c) : s \in Strings(n - 1), c \in SpecChars}

\* The tokens `break` can be given: tokens.get(1) is never empty.
SpecStrings == Strings(MaxSpecLen) \ {<<>>}

BreakOnce ==
  /\ sess = "active"
  /\ lastCmd.cmd = "none"
  /\ \E args \in SpecStrings : \E o \in BreakCmd(Cur, args) : Commit(o, "break", args)

DispatchSpec == Init /\ [][BreakOnce]_vars

(***************************************************************************)
(* week1/part-2-warmup: dedup, over every vector of up to MaxLen values.   *)
(***************************************************************************)
MaxLen == 4

Values == {0, 1, 3, 4}

RECURSIVE Vectors(_)
Vectors(n) ==
  IF n = 0 THEN {<<>>}
  ELSE Vectors(n - 1) \cup {Append(xs, x) : xs \in Vectors(n - 1), x \in Values}

RECURSIVE Reverse(_)
Reverse(xs) == IF xs = <<>> THEN <<>> ELSE Append(Reverse(Tail(xs)), Head(xs))

\* The for loop of dedup over the rest of the vector, with the HashSet set
\* and the Vec vec built so far.
RECURSIVE DedupLoop(_, _, _)
DedupLoop(rest, set, vec) ==
  IF rest = <<>> THEN vec
  ELSE IF Head(rest) \notin set
    THEN DedupLoop(Tail(rest), set \cup {Head(rest)}, Append(vec, Head(rest)))
  ELSE DedupLoop(Tail(rest), set, vec)

\* dedup that keeps every value at its last occurrence.
dedup_KeepLast(xs) == Reverse(DedupLoop(Reverse(xs), {}, <<>>))

\* dedup: the vector that replaces *v
dedup(xs) == DedupLoop(xs, {}, <<>>)

DedupInit ==
  /\ inferior = None
  /\ breakpoints = <<>>
  /\ proc = NoProc
  /\ alive = {}
  /\ nextPid = 1
  /\ sess = "active"
  /\ lastCmd = [cmd |-> "none", args |-> <<>>]
  /\ runStatus = "none"
  /\ ops = <<>>
  /\ out = <<>>
  /\ memBefore = Image
  /\ v \in Vectors(MaxLen)

\* dedup(&mut v); lastCmd keeps the vector the call was given.
Dedup ==
  /\ lastCmd.cmd = "none"
  /\ v' = dedup(v)
  /\ lastCmd' = [cmd |-> "dedup", args |-> v]
  /\ UNCHANGED <<inferior, breakpoints, proc, alive, nextPid, sess, runStatus, ops, out,
                 memBefore>>

DedupSpec == DedupInit /\ [][Dedup]_vars

(***************************************************************************)
(* Reading the history of a command.                                       *)
(***************************************************************************)
TraceOps == {"spawn", "peek", "poke", "getregs", "setregs", "step", "cont", "wait", "kill"}

\* Positions of log where op was issued successfully.
At(log, op) == {i \in 1..Len(log) : log[i].op = op /\ log[i].ok}

\* Positions of the resumes (ptrace::cont) of a command.
Conts(log) == At(log, "cont")

\* The wait status that ends the resume-and-wait cycle begun at position c.
WaitOf(log, c) ==
  LET w == {j \in At(log, "wait") : j > c}
  IN log[CHOOSE j \in w : \A k \in w : j <= k]

Terminal(ev) == ev.sig \in {"Exited", "Signaled"}

\* Lines of a command that report a status of the child.
StopLines(lines) == {i \in 1..Len(lines) : lines[i].msg = "Child stopped (signal)"}
ExitLines(lines) ==
  {i \in 1..Len(lines) : lines[i].msg \in {"Child exited (status)", "Child exited with"}}

\* Position i of log writes byte v at address a.
IsPoke(log, i, a, val) == log[i].op = "poke" /\ log[i].a = a /\ log[i].v = val

\* Before position c, log restores the program's byte at a, rewinds to a,
\* single-steps, runs the instruction at a and rewrites the trap, in that order.
SteppedOverBefore(log, c, a) ==
  \E i \in 1..(c - 1) :
    /\ IsPoke(log, i, a, Image[a])
    /\ \E j \in (i + 1)..(c - 1) :
         /\ log[j].op = "setregs" /\ log[j].a = a
         /\ \E k \in (j + 1)..(c - 1) :
              /\ log[k].op = "step"
              /\ \E r \in (k + 1)..(c - 1) :
                   /\ log[r].op = "ran" /\ log[r].a = a
                   /\ \E t \in (r + 1)..(c - 1) : IsPoke(log, t, a, TRAP)

(***************************************************************************)
(* Claims                                                                  *)
(***************************************************************************)

\* C1: whenever a resume-and-wait cycle of a `continue` command returns
\* Exited or Signaled, the command reports the terminal status, ends with
\* inferior = None, and the command loop is still running.
C1_ContinueExitEndsInNoProcess ==
  (lastCmd.cmd = "continue") =>
    \A c \in Conts(ops) :
      Terminal(WaitOf(ops, c)) =>
        /\ ExitLines(out) # {}
        /\ inferior = None
        /\ sess = "active"

\* C2: once a `run` got Exited or Signaled from its wait the session is in
\* NoProcess (inferior = None), and every later `continue` or `backtrace`
\* issues no trace operation, leaves the registry as it is and leaves the
\* command loop running.
C2_RunExitThenNoOps ==
  /\ [](runStatus \in {"Exited", "Signaled"} => inferior = None)
  /\ [][(runStatus \in {"Exited", "Signaled"} /\ runStatus' = runStatus
         /\ lastCmd'.cmd \in {"continue", "backtrace"})
        => /\ \A i \in 1..Len(ops') : ops'[i].op \notin TraceOps
           /\ breakpoints' = breakpoints
           /\ sess' = "active"]_vars

\* C3: a `continue` issued while the child is stopped one byte past the armed
\* trap of a registered breakpoint at a restores the program's byte at a,
\* rewinds to a, single-steps the instruction at a and rewrites the trap, all
\* before it resumes; so any stop it reports comes after the instruction at a
\* ran.
C3_StepOverBeforeResume ==
  [][(/\ lastCmd'.cmd = "continue"
      /\ sess = "active"
      /\ inferior # None
      /\ proc.st = "stopped"
      /\ (proc.rip - 1) \in DOMAIN breakpoints
      /\ (proc.rip - 1) \in TextAddrs
      /\ proc.mem[proc.rip - 1] = TRAP)
     => LET a == proc.rip - 1
            log == ops'
        IN /\ \E i \in At(log, "poke") : IsPoke(log, i, a, Image[a])
           /\ \A c \in Conts(log) : SteppedOverBefore(log, c, a)
           /\ (StopLines(out') # {} => \E r \in At(log, "ran") : log[r].a = a)]_vars

\* C4: a `continue` command resumes the child at most once (the single-step
\* of a step-over aside), and reports the status of every resume-and-wait
\* cycle it performs.
C4_OneResumePerContinue ==
  (lastCmd.cmd = "continue") =>
    /\ Cardinality(Conts(ops)) <= 1
    /\ Cardinality(Conts(ops)) = Cardinality(StopLines(out)) + Cardinality(ExitLines(out))

\* C5: `quit` ends the session normally in every state, and leaves no process
\* spawned by the session alive or unreaped.
C5_QuitAlwaysEndsCleanly ==
  (lastCmd.cmd = "quit") => (sess = "quit" /\ alive = {})

\* C6: at most one process spawned by the session is alive or unreaped.
C6_AtMostOneLiveProcess == Cardinality(alive) <= 1

\* C7: whenever `break` or `run` writes the trap of a registered breakpoint
\* into the child, the registry entry's orig_byte is the byte that was at that
\* address in that child before the write.
C7_OrigByteCaptured ==
  [][\A a \in DOMAIN breakpoints' :
       (/\ lastCmd'.cmd \in {"break", "run"}
        /\ \E i \in At(ops', "poke") : IsPoke(ops', i, a, TRAP))
       => breakpoints'[a].orig_byte =
            (IF lastCmd'.cmd = "run" THEN Image[a] ELSE proc.mem[a])]_vars

\* C8: `run`, `continue` and `quit` leave the registry unchanged, and in every
\* `run` that resumes the new child, the trap has been written at every
\* registered address before the first resume.
C8_RegistryReapplied ==
  [][/\ (lastCmd'.cmd \in {"run", "continue", "quit"} => breakpoints' = breakpoints)
     /\ (lastCmd'.cmd = "run" =>
           \A c \in Conts(ops') : \A a \in DOMAIN breakpoints' :
              \E i \in 1..(c - 1) : IsPoke(ops', i, a, TRAP))]_vars

\* C9: `break` at an address that is already registered echoes the id of the
\* existing entry, leaves the registry unchanged and writes nothing into the
\* child.
C9_RepeatedBreakIsIdempotent ==
  [][\A args \in Specs :
       (/\ lastCmd' = [cmd |-> "break", args |-> args]
        /\ sess = "active"
        /\ Resolve(args).ok
        /\ Resolve(args).val \in DOMAIN breakpoints)
       => /\ out' = <<Msg("Set breakpoint", "", breakpoints[Resolve(args).val].id)>>
          /\ breakpoints' = breakpoints
          /\ \A i \in 1..Len(ops') : ops'[i].op \notin TraceOps
          /\ proc' = proc]_vars

\* A `break` on a live, stopped child that echoed an id without reading or
\* writing the child's memory: the address was registered before.
C9_Witness ==
  /\ lastCmd.cmd = "break"
  /\ inferior # None /\ proc.st = "stopped"
  /\ Resolve(lastCmd.args).ok
  /\ out = <<Msg("Set breakpoint", "", 1)>>
  /\ Cardinality(DOMAIN breakpoints) >= 2
  /\ \A i \in 1..Len(ops) : ops[i].op \notin TraceOps

RegistryShape ==
  /\ \A a \in DOMAIN breakpoints : breakpoints[a].addr = a
  /\ {breakpoints[a].id : a \in DOMAIN breakpoints} = 1..Cardinality(DOMAIN breakpoints)
  /\ \A a, b \in DOMAIN breakpoints : breakpoints[a].id = breakpoints[b].id => a = b

RegistryGrowsOnly ==
  /\ DOMAIN breakpoints \subseteq DOMAIN breakpoints'
  /\ \A a \in DOMAIN breakpoints :
       /\ breakpoints'[a].id = breakpoints[a].id
       /\ breakpoints'[a].addr = breakpoints[a].addr
  /\ \A a \in (DOMAIN breakpoints') \ (DOMAIN breakpoints) :
       breakpoints'[a].id = Cardinality(DOMAIN breakpoints) + 1

\* C10: the registry holds one entry per address, keyed by its address; the ids
\* of n entries are exactly 1..n, pairwise distinct, given in creation order;
\* no id ever changes and no entry is ever removed.
C10_RegistryIds == []RegistryShape /\ [][RegistryGrowsOnly]_vars

\* Three breakpoints registered, the registry having lived through a restart.
C10_Witness ==
  /\ Cardinality(DOMAIN breakpoints) = 3
  /\ nextPid > 2
  /\ lastCmd.cmd = "break"

\* C11: for every byte offset of the word and every content of it, installing
\* a trap at a makes the byte at a 0xCC, hands back the byte that was there
\* and changes no other byte; writing that byte back at a makes the whole
\* memory equal to what it was before the install.
C11_InstallThenRestore ==
  /\ (lastCmd.cmd = "install") =>
       \A a \in DOMAIN breakpoints :
         /\ proc.mem[a] = TRAP
         /\ breakpoints[a].orig_byte = memBefore[a]
         /\ \E i \in At(ops, "poke") : IsPoke(ops, i, a, TRAP)
         /\ \A x \in (DOMAIN proc.mem) \ {a} : proc.mem[x] = memBefore[x]
  /\ (lastCmd.cmd = "restore") => proc.mem = memBefore

\* A trap installed at the last byte of a word of mixed content, and taken back.
C11_Witness ==
  /\ lastCmd.cmd = "restore"
  /\ DOMAIN breakpoints = {15}
  /\ memBefore[15] = 255
  /\ memBefore[14] = TRAP
  /\ memBefore[8] = 0

DecChars == {"0", "1", "2", "3", "4", "5", "6", "7", "8", "9"}
HexChars == DecChars \cup {"a", "b", "c", "d", "e", "f", "A", "B", "C", "D", "E", "F"}

AllIn(s, chars) == s # <<>> /\ \A i \in 1..Len(s) : s[i] \in chars

\* s reads as an unsigned base-10 integer: digits, after at most one `+`.
IsUnsigned(s) == AllIn(IF s # <<>> /\ Head(s) = "+" THEN Tail(s) ELSE s, DecChars)

\* s without a leading 0x or 0X.
Without0x(s) ==
  IF Len(s) >= 2 /\ s[1] = "0" /\ s[2] \in {"x", "X"} THEN SubSeq(s, 3, Len(s)) ELSE s

LineLookups(log) == {i \in 1..Len(log) : log[i].op = "get_addr_for_line"}
FuncLookups(log) == {i \in 1..Len(log) : log[i].op = "get_addr_for_function"}

\* C12: a `break` spec starting with `*` makes no resolver call, and when the
\* rest is hexadecimal digits after an optional 0x/0X the breakpoint is set at
\* that address; otherwise a spec that reads as an unsigned base-10 integer
\* makes exactly one line lookup, for that line, and no function lookup; any
\* other spec makes exactly one function lookup and no line lookup.
C12_Dispatch ==
  (lastCmd.cmd = "break") =>
    LET s == lastCmd.args
    IN IF Head(s) = "*"
         THEN /\ LineLookups(ops) = {} /\ FuncLookups(ops) = {}
              /\ AllIn(Without0x(Tail(s)), HexChars) =>
                   /\ sess = "active"
                   /\ DigitsValue(Without0x(Tail(s)), 16, 0) \in DOMAIN breakpoints
       ELSE IF IsUnsigned(s)
         THEN /\ Cardinality(LineLookups(ops)) = 1 /\ FuncLookups(ops) = {}
              /\ \A i \in LineLookups(ops) :
                   ops[i].a = DigitsValue(IF Head(s) = "+" THEN Tail(s) ELSE s, 10, 0)
       ELSE Cardinality(FuncLookups(ops)) = 1 /\ LineLookups(ops) = {}

\* `break *0Xf` set a breakpoint at 15 without asking the resolver.
C12_Witness ==
  /\ lastCmd = [cmd |-> "break", args |-> <<"*", "0", "X", "f">>]
  /\ DOMAIN breakpoints = {15}
  /\ ops = <<>>

\* C13: a `break` whose spec resolves to no address (unknown line, unknown
\* function, or a `*` spec whose rest is not a hexadecimal number) reports the
\* failure, leaves the registry and the child as they are, and leaves the
\* command loop running.
C13_UnresolvedBreakIsReported ==
  [][\A args \in Specs :
       (/\ lastCmd' = [cmd |-> "break", args |-> args]
        /\ sess = "active"
        /\ ~Resolve(args).ok)
       => /\ out' # <<>>
          /\ breakpoints' = breakpoints
          /\ proc' = proc
          /\ inferior' = inferior
          /\ sess' = "active"]_vars

\* Positions of log where a trace operation failed.
FailedOps(log) == {i \in 1..Len(log) : log[i].op \in TraceOps /\ ~log[i].ok}

\* C14: a `continue` in which a trace operation fails (the register read of
\* get_previous_ins, a memory access or the step of step_breakpoint, the resume
\* or the wait of continue_run) ends that command only: the command loop is
\* still running afterwards. This covers `continue` after the child has exited.
C14_FailedOpAbortsCommandOnly ==
  (lastCmd.cmd = "continue" /\ FailedOps(ops) # {}) => sess = "active"

\* C15: `backtrace` on a live child ends with the command loop still running,
\* also when the resolver has nothing for the address of a frame or a read of
\* the stack fails; the walk then stops and prints no further frame.
C15_BacktraceFailsGracefully ==
  (lastCmd.cmd = "backtrace" /\ inferior # None) => sess = "active"

\* The first position of log after position k that holds a wait status.
FirstWaitAfter(log, k) ==
  CHOOSE j \in (k + 1)..Len(log) :
    log[j].op = "wait" /\ \A i \in (k + 1)..(j - 1) : log[i].op # "wait"

\* C16: a `continue` that calls step_breakpoint(a, orig_byte), no trace
\* operation failing, writes orig_byte at a, sets the instruction pointer to a,
\* single-steps exactly once and waits. After a SIGTRAP stop it writes the trap
\* back at a and the command goes on to resume; after any other stop, an exit
\* or a death by signal it writes nothing more, the trap stays out of the
\* child's memory, the failure is printed and the child is not resumed.
C16_StepOverBreakpoint ==
  (/\ lastCmd.cmd = "continue"
   /\ out # <<>>
   /\ out[1].msg = "Previously Stopped at breakpoint"
   /\ FailedOps(ops) = {})
  => LET a == out[1].n
         log == ops
         w == FirstWaitAfter(log, 6)
     IN /\ Len(log) >= 7
        /\ log[2].op = "peek"
        /\ IsPoke(log, 3, a, breakpoints[a].orig_byte)
        /\ log[5].op = "setregs" /\ log[5].a = a
        /\ log[6].op = "step"
        /\ At(log, "step") = {6}
        /\ \A i \in 7..(w - 1) : log[i].op \in {"ran", "trap", "garbage"}
        /\ IF log[w].sig = "SIGTRAP"
             THEN /\ Len(log) >= w + 3
                  /\ IsPoke(log, w + 2, a, TRAP)
                  /\ log[w + 3].op = "cont"
             ELSE /\ Len(log) = w
                  /\ Conts(log) = {}
                  /\ out[Len(out)].msg = "Failed to step by the breakpoint"
                  /\ (proc.st = "stopped" => proc.mem[a] = breakpoints[a].orig_byte)

\* The step over the trap at 10 ran the program's instruction there, and the
\* trap was written back before the child was resumed.
C16_Witness ==
  /\ lastCmd.cmd = "continue"
  /\ Len(out) >= 1 /\ out[1] = Msg("Previously Stopped at breakpoint", "", FooAddr)
  /\ breakpoints[FooAddr].orig_byte = Image[FooAddr]
  /\ \E i \in At(ops, "ran") : ops[i].a = FooAddr /\ i = 7
  /\ \E i \in At(ops, "poke") : IsPoke(ops, i, FooAddr, TRAP)
  /\ Conts(ops) # {}

\* C17: with no inferior, `continue` and `backtrace` leave inferior = None, the
\* registry, the processes and the running command loop as they are and issue
\* no trace operation; `backtrace` prints nothing.
C17_NoProcessNoOp ==
  [][(/\ sess = "active"
      /\ inferior = None
      /\ lastCmd'.cmd \in {"continue", "backtrace"})
     => /\ inferior' = None
        /\ breakpoints' = breakpoints
        /\ proc' = proc
        /\ alive' = alive
        /\ sess' = "active"
        /\ \A i \in 1..Len(ops') : ops'[i].op \notin TraceOps
        /\ (lastCmd'.cmd = "backtrace" => out' = <<>>)]_vars

\* `continue` was refused with no inferior while breakpoints were registered.
C17_Witness ==
  /\ lastCmd.cmd = "continue"
  /\ inferior = None
  /\ sess = "active"
  /\ DOMAIN breakpoints # {}
  /\ out = <<Msg("The process is not running", "", 0)>>
  /\ ops = <<>>

\* The position of the first occurrence of x in xs.
FirstIndex(xs, x) == CHOOSE i \in 1..Len(xs) : xs[i] = x /\ \A j \in 1..(i - 1) : xs[j] # x

\* C18: after dedup(v), v has no duplicates, holds exactly the values of the
\* vector it was given, and holds them in the order of their first occurrences
\* there.
C18_Dedup ==
  (lastCmd.cmd = "dedup") =>
    LET given == lastCmd.args
    IN /\ \A i, j \in 1..Len(v) : v[i] = v[j] => i = j
       /\ {v[i] : i \in 1..Len(v)} = {given[i] : i \in 1..Len(given)}
       /\ \A i, j \in 1..Len(v) :
            i < j => FirstIndex(given, v[i]) < FirstIndex(given, v[j])

\* A vector with repeated values out of order was deduplicated.
C18_Witness ==
  /\ lastCmd = [cmd |-> "dedup", args |-> <<3, 1, 1, 3>>]
  /\ v = <<3, 1>>

\* Positions of log where the child was set running: resumes and single-steps.
Resumes(log) == At(log, "cont") \cup At(log, "step")

\* The resume at position r of log is a step over the trap at a: the program's
\* byte was put back at a after position t, the single-step starts at a, and
\* unless a signal from outside comes first it executes the instruction at a.
IsStepOver(log, t, r, a) ==
  /\ log[r].op = "step"
  /\ log[r].a = a
  /\ \E i \in (t + 1)..(r - 1) : IsPoke(log, i, a, Image[a])
  /\ r < Len(log)
  /\ \/ log[r + 1].op = "ran" /\ log[r + 1].a = a
     \/ log[r + 1].op = "wait" /\ log[r + 1].sig \in {"SIGINT", "Signaled"}

\* In log, the first resume after every executed trap is a step over it.
StepOverAfterTrap(log) ==
  \A t \in 1..Len(log) :
    (log[t].op = "trap") =>
      LET later == {r \in Resumes(log) : r > t}
      IN later # {} =>
           IsStepOver(log, t, CHOOSE r \in later : \A q \in later : r <= q, log[t].a)

\* log ends with the stop of a child that has just executed a trap.
EndsAtTrap(log) ==
  /\ Len(log) >= 2
  /\ log[Len(log)].op = "wait" /\ log[Len(log)].sig = "SIGTRAP"
  /\ log[Len(log) - 1].op = "trap"

\* C19: the child is never resumed with a plain continue while it is stopped
\* one byte past a trap it has just executed: the first resume after the stop,
\* in the same command or in the `continue` that follows, is a step over that
\* trap (the program's byte put back, the instruction pointer rewound to it).
C19_NoPlainResumePastTrap ==
  /\ []StepOverAfterTrap(ops)
  /\ [][(EndsAtTrap(ops) /\ lastCmd'.cmd = "continue" /\ Resumes(ops') # {})
        => LET first == CHOOSE r \in Resumes(ops') : \A q \in Resumes(ops') : r <= q
           IN IsStepOver(ops', 0, first, ops[Len(ops) - 1].a)]_vars

\* Positions of log where the child executed an instruction of the target.
TargetRan(log) == {i \in 1..Len(log) : log[i].op \in {"ran", "trap", "garbage"}}

\* C20: in every `run`, the parent has waited for the initial stop of the new
\* child before it reads or writes the child's memory or resumes it, no such
\* operation is issued to a child that is not stopped, and the trap of every
\* registered breakpoint is written before the target executes anything.
C20_InstallsAfterInitialStop ==
  (lastCmd.cmd = "run") =>
    /\ \A i \in 1..Len(ops) :
         (ops[i].op \in {"peek", "poke", "cont"}) =>
           /\ ops[i].ok
           /\ \E j \in 1..(i - 1) : ops[j].op = "wait"
    /\ \A r \in TargetRan(ops) : \A a \in DOMAIN breakpoints :
         \E i \in 1..(r - 1) : IsPoke(ops, i, a, TRAP)

\* The child is stopped, and not because it executed a trap at the byte before
\* its instruction pointer: the last command ended with a stop that no trap
\* caused, or it was the `break` that wrote the trap there after the stop.
StoppedNotByTrap ==
  /\ sess = "active"
  /\ inferior # None
  /\ proc.st = "stopped"
  /\ \/ /\ lastCmd.cmd \in {"run", "continue"}
        /\ ops # <<>>
        /\ ops[Len(ops)].op = "wait"
        /\ ~EndsAtTrap(ops)
     \/ /\ lastCmd.cmd = "break"
        /\ \E i \in At(ops, "poke") : IsPoke(ops, i, proc.rip - 1, TRAP)

\* C21: a `continue` issued while the child is stopped for a reason other than
\* having executed the trap at the byte before its instruction pointer does not
\* move the instruction pointer backwards and steps over nothing, also when a
\* breakpoint is registered at that byte.
C21_RewindOnlyAfterTrap ==
  [][(StoppedNotByTrap /\ lastCmd'.cmd = "continue")
     => /\ \A i \in 1..Len(ops') : ops'[i].op \notin {"setregs", "step"}
        /\ \A i \in At(ops', "poke") : ops'[i].a # proc.rip - 1]_vars

\* The session is between commands with a live, stopped child.
Live == sess = "active" /\ inferior # None /\ proc.st = "stopped"

\* Every registered address holds the trap opcode in the child's memory.
Armed == \A a \in DOMAIN breakpoints : a \in DOMAIN proc.mem /\ proc.mem[a] = TRAP

\* A command in which no trace operation fails, and which starts the child or
\* finds it live with every registered address armed.
KeepsArmed ==
  /\ FailedOps(ops') = {}
  /\ lastCmd'.cmd = "run" \/ (Live /\ Armed)

\* The `continue` just handled gave up its step-over after a stop other than
\* SIGTRAP, and every registered address but that one is armed.
FailedStepOnly ==
  /\ lastCmd.cmd = "continue"
  /\ Len(out) = 2
  /\ out[1].msg = "Previously Stopped at breakpoint"
  /\ out[2].msg = "Failed to step by the breakpoint"
  /\ \A a \in (DOMAIN breakpoints) \ {out[1].n} : proc.mem[a] = TRAP
  /\ proc.mem[out[1].n] = breakpoints[out[1].n].orig_byte

\* C22 as stated: no trace operation failing, whenever the session is between
\* commands with a live, stopped child, every registered address holds 0xCC in
\* the child's memory. Stated command by command: a command that starts the
\* child, or finds every registered address armed, leaves every registered
\* address armed.
C22_AlwaysArmed ==
  [][(KeepsArmed /\ Live') => Armed']_vars

\* C22, amended: as above, except that a `continue` whose step-over ends in a
\* stop other than SIGTRAP leaves the saved byte, not the trap, at the address
\* it stepped over.
C22_ArmedUnlessStepFailed ==
  [][(KeepsArmed /\ Live') => (Armed' \/ FailedStepOnly')]_vars

\* A `continue` stepped over one of two armed breakpoints and left both armed.
C22_Witness ==
  /\ Live
  /\ Armed
  /\ lastCmd.cmd = "continue"
  /\ Cardinality(DOMAIN breakpoints) = 2
  /\ FailedOps(ops) = {}
  /\ At(ops, "step") # {}

(***************************************************************************)
(* The frames of a stopped child, read off its registers and memory.       *)
(***************************************************************************)
MaxFrames == 4

\* The value of the word that child memory mem holds at a.
Saved(mem, a) == WordVal([i \in 0..(WordSize - 1) |-> mem[a + i]])

\* The frame with instruction address ip and frame base base has a caller
\* frame record: both of its words are mapped.
HasRecord(mem, base) == \A a \in base..(base + 2 * WordSize - 1) : a \in DOMAIN mem

\* The chain that starts at (ip, base) is well formed and reaches main
\* within n frames: every frame lies in a function the resolver knows, and
\* every frame below main has a readable frame record.
RECURSIVE WellFormed(_, _, _, _)
WellFormed(mem, ip, base, n) ==
  /\ n > 0
  /\ get_function_from_addr(ip).ok
  /\ get_line_from_addr(ip).ok
  /\ \/ get_function_from_addr(ip).val = "main"
     \/ /\ HasRecord(mem, base)
        /\ WellFormed(mem, Saved(mem, base + WordSize), Saved(mem, base), n - 1)

\* The frames of a well-formed chain, innermost first.
RECURSIVE Frames(_, _, _)
Frames(mem, ip, base) ==
  IF get_function_from_addr(ip).val = "main"
    THEN <<[ip |-> ip, base |-> base]>>
    ELSE <<[ip |-> ip, base |-> base]>>
         \o Frames(mem, Saved(mem, base + WordSize), Saved(mem, base))

\* C23: for a stopped inferior whose saved-frame-pointer chain is well formed
\* and reaches main after finitely many frames, print_backtrace ends without
\* failing, reports one `function (line)` frame per stack frame, innermost
\* first and main last, reads each caller's instruction address from
\* [frame base + 8] and then each caller's frame base from [frame base], and
\* changes neither the registers nor the memory of the inferior.
C23_BacktraceWalksChain ==
  [][(/\ Live
      /\ WellFormed(proc.mem, proc.rip, proc.rbp, MaxFrames)
      /\ lastCmd'.cmd = "backtrace")
     => LET fs == Frames(proc.mem, proc.rip, proc.rbp)
            n == Len(fs)
        IN /\ sess' = "active"
           /\ FailedOps(ops') = {}
           /\ Len(out') = n
           /\ \A i \in 1..n :
                out'[i] = Msg("frame", get_function_from_addr(fs[i].ip).val,
                              get_line_from_addr(fs[i].ip).val)
           /\ out'[n].txt = "main"
           /\ \A i \in 1..(n - 1) : out'[i].txt # "main"
           /\ Len(ops') = 1 + 2 * (n - 1)
           /\ ops'[1].op = "getregs"
           /\ \A i \in 1..(n - 1) :
                /\ ops'[2 * i].op = "peek"
                /\ ops'[2 * i].a = fs[i].base + 8
                /\ ops'[2 * i + 1].op = "peek"
                /\ ops'[2 * i + 1].a = fs[i].base
           /\ proc' = proc
           /\ inferior' = inferior]_vars

\* A backtrace of three frames was printed: foo, called from foo, called from main.
C23_Witness ==
  /\ lastCmd.cmd = "backtrace"
  /\ Live
  /\ WellFormed(proc.mem, proc.rip, proc.rbp, MaxFrames)
  /\ Len(out) = 3
  /\ out[1].txt = "foo"
  /\ out[3].txt = "main"
  /\ At(ops, "peek") = 2..5

====
